---------------------------- MODULE Spec2Model ----------------------------
(***************************************************************************)
(* Model of the Enums collection of go-xlan/protoenum                      *)
(* (src/protoenums.go, richer variant, and src/with_default.go) over the   *)
(* Enum record of src/unnamed/part_007.                                    *)
(*                                                                         *)
(* An *Enum is a heap object: two different pointers may carry the same    *)
(* proto / basic value, and the collection stores pointers.  A panic of a  *)
(* must.* check is an operation result that leaves the receiver as the     *)
(* code left it at the moment of the panic.                                *)
(***************************************************************************)
EXTENDS Integers, Sequences, FiniteSets, TLC

\* ------------------------------------------------------------------ bounds
\* Longest argument list handed to NewEnums.
MaxParams == 3

\* ------------------------------------------------------------- the universe
\* The nil pointer of type *Enum.
Nil == "nil"

\* Values of the type parameter P.  The ProtoEnum constraint only asks for
\* String(), Number() and comparable, so two P values may share a number or
\* a name.
ProtoVals == {"P0", "P1", "P2", "P1b", "P3"}

\* P.Number()
Number(proto) ==
    CASE proto = "P0"  -> 0
      [] proto = "P1"  -> 1
      [] proto = "P2"  -> 2
      [] proto = "P1b" -> 1
      [] proto = "P3"  -> 3

\* P.String()
String(proto) ==
    CASE proto = "P0"  -> "UNKNOWN"
      [] proto = "P1"  -> "SUCCESS"
      [] proto = "P2"  -> "FAILURE"
      [] proto = "P1b" -> "ALIAS"
      [] proto = "P3"  -> "SUCCESS"

\* Values of the type parameter B (a Go native enum such as StatusType).
BasicVals == {"unknown", "success", "alias", "other"}

\* The *Enum objects the callers hold.  With e2: e3 shares only the code,
\* e4 only the name, e5 only the basic value.  e6 is a second object with
\* the content of e1 (a copy held by a client).
EnumPtrs == {"e1", "e2", "e3", "e4", "e5", "e6"}

\* The struct behind each pointer: Enum{proto, basic, meta}.
Enum(ptr) ==
    CASE ptr = "e1" -> [proto |-> "P0",  basic |-> "unknown"]
      [] ptr = "e2" -> [proto |-> "P1",  basic |-> "success"]
      [] ptr = "e3" -> [proto |-> "P1b", basic |-> "alias"]
      [] ptr = "e4" -> [proto |-> "P3",  basic |-> "other"]
      [] ptr = "e5" -> [proto |-> "P2",  basic |-> "success"]
      [] ptr = "e6" -> [proto |-> "P0",  basic |-> "unknown"]

Proto(ptr) == Enum(ptr).proto
Basic(ptr) == Enum(ptr).basic
Pure(ptr)  == Enum(ptr).basic
Code(ptr)  == Number(Enum(ptr).proto)
Name(ptr)  == String(Enum(ptr).proto)

CodeVals == {Number(p) : p \in ProtoVals}
NameVals == {String(p) : p \in ProtoVals}

\* Argument lists of NewEnums: nil elements are possible.
ParamLists == UNION {[1..n -> EnumPtrs \cup {Nil}] : n \in 0..MaxParams}

\* ------------------------------------------------------------ result values
\* The names of the panics, by the must.* call that raises them.
NoError             == "none"
InvalidArgument     == "InvalidArgument"
DuplicateKey        == "DuplicateKey"
NotFound            == "NotFound"
InvalidState        == "InvalidState"
NoDefaultConfigured == "NoDefaultConfigured"

Ok(v)       == [ok |-> TRUE,  val |-> v,   err |-> NoError]
Panic(kind) == [ok |-> FALSE, val |-> Nil, err |-> kind]

\* ------------------------------------------------------------- Go map model
EmptyMap == [k \in {} |-> Nil]
\* The object a client obtains by copying *v: for e1 the only other object
\* with its content is e6, and the reverse.
CopyOf(v) == IF v = "e1" THEN "e6" ELSE IF v = "e6" THEN "e1" ELSE v

\* Variant of MapPut: the map keeps the address of a copy of the Enum.
MapPut_Copy(m, k, v) ==
    [x \in (DOMAIN m) \cup {k} |-> IF x = k THEN CopyOf(v) ELSE m[x]]

\* m[k] = v
MapPut(m, k, v) == [x \in (DOMAIN m) \cup {k} |-> IF x = k THEN v ELSE m[x]]
\* m[k] of Go: the zero value (nil) for a missing key
MapGet(m, k) == IF k \in DOMAIN m THEN m[k] ELSE Nil

\* Variant of Taken: no collision check, a later entry replaces an earlier.
Taken_Never(m, k) == FALSE

\* must.Null(m[k]) panics exactly when this holds.
Taken(m, k) == MapGet(m, k) # Nil

\* ------------------------------------------------------------------- state
VARIABLES
    phase,          \* "fresh": NewEnums not called; "ready"; "panicked"
    params,         \* the argument list given to NewEnums
    enumElements,   \* Enums.enumElements
    mapProtoEnum,   \* Enums.mapProtoEnum
    mapCode2Enum,   \* Enums.mapCode2Enum
    mapName2Enum,   \* Enums.mapName2Enum
    mapBasicEnum,   \* Enums.mapBasicEnum
    defaultValue,   \* Enums.defaultValue (*Enum, Nil when unset)
    defaultValid,   \* Enums.defaultValid (*bool: << >> is nil, <<b>> points to b)
    call,           \* the last call made: [op, arg, res]
    callerSlice,    \* the elements of the slice the caller gave to NewEnums
    elemsArray,     \* the array behind Enums.enumElements
    setters,        \* per goroutine: its position in SetDefault, [pc, enum]
    simple          \* an Enums of the three-index variant, given the same calls

vars == <<phase, params, enumElements, mapProtoEnum, mapCode2Enum,
          mapName2Enum, mapBasicEnum, defaultValue, defaultValid, call,
          callerSlice, elemsArray, setters, simple>>

\* What belongs to the callers, the array of the element list, and the
\* collection of the other variant.
beside == <<callerSlice, elemsArray, setters, simple>>

indexes == <<enumElements, mapProtoEnum, mapCode2Enum, mapName2Enum, mapBasicEnum>>

\* The goroutines that call SetDefault on the one collection, and where a
\* goroutine that has not called it stands.
Goroutines == {"g1", "g2"}
Idle == [pc |-> "idle", enum |-> Nil]

\* Arrays behind the slices: the one of the caller's argument list, and the
\* one slices.Clone allocates.
CallerArray == "params"
ClonedArray == "cloned"

\* Variant of Clone: the slice is stored as given, on the caller's array.
Clone_Same(array) == array

\* slices.Clone(params): a slice on an array of its own
Clone(array) == ClonedArray

\* utils.GetPointerValue: the pointee, or the zero value for nil
GetPointerValue(v) == IF v # << >> THEN v[1] ELSE FALSE

\* Variant of V0: the last element.
V0_Last(list) == IF Len(list) > 0 THEN list[Len(list)] ELSE Nil

\* The collection of the three-index variant before its NewEnums has run:
\* its fields, the call it was given last (seen) and what that call
\* returned (res).
SimpleFresh ==
    [phase        |-> "fresh",
     mapCode2Enum |-> EmptyMap,
     mapName2Enum |-> EmptyMap,
     mapPure2Enum |-> EmptyMap,
     defaultValue |-> Nil,
     seen         |-> [op |-> "none", arg |-> Nil, res |-> Ok(Nil)],
     res          |-> Ok(Nil)]

\* slicetern.V0: the first element, or the zero value of an empty slice
V0(list) == IF Len(list) > 0 THEN list[1] ELSE Nil

\* -------------------------------------------------------------- NewEnums
\* Variant of NewEnumsStep: only the first entry is put in mapBasicEnum,
\* later entries are checked against it but not stored.
NewEnumsStep_NoBasicIndex(res, enum) ==
    IF res.err # NoError THEN res
    ELSE IF enum = Nil THEN [res EXCEPT !.err = InvalidArgument]
    ELSE IF Taken(res.mapProtoEnum, Proto(enum))
         THEN [res EXCEPT !.err = DuplicateKey]
    ELSE LET r1 == [res EXCEPT !.mapProtoEnum = MapPut(@, Proto(enum), enum)] IN
    IF Taken(r1.mapCode2Enum, Code(enum))
         THEN [r1 EXCEPT !.err = DuplicateKey]
    ELSE LET r2 == [r1 EXCEPT !.mapCode2Enum = MapPut(@, Code(enum), enum)] IN
    IF Taken(r2.mapName2Enum, Name(enum))
         THEN [r2 EXCEPT !.err = DuplicateKey]
    ELSE LET r3 == [r2 EXCEPT !.mapName2Enum = MapPut(@, Name(enum), enum)] IN
    IF Taken(r3.mapBasicEnum, Basic(enum))
         THEN [r3 EXCEPT !.err = DuplicateKey]
    ELSE IF r3.mapBasicEnum = EmptyMap
         THEN [r3 EXCEPT !.mapBasicEnum = MapPut(@, Basic(enum), enum)]
         ELSE r3

\* One iteration of the loop of NewEnums over res (the Enums under
\* construction); res.err records the must.* check that panicked.
NewEnumsStep(res, enum) ==
    IF res.err # NoError THEN res
    ELSE IF enum = Nil THEN [res EXCEPT !.err = InvalidArgument]
    ELSE IF Taken(res.mapProtoEnum, Proto(enum))
         THEN [res EXCEPT !.err = DuplicateKey]
    ELSE LET r1 == [res EXCEPT !.mapProtoEnum = MapPut(@, Proto(enum), enum)] IN
    IF Taken(r1.mapCode2Enum, Code(enum))
         THEN [r1 EXCEPT !.err = DuplicateKey]
    ELSE LET r2 == [r1 EXCEPT !.mapCode2Enum = MapPut(@, Code(enum), enum)] IN
    IF Taken(r2.mapName2Enum, Name(enum))
         THEN [r2 EXCEPT !.err = DuplicateKey]
    ELSE LET r3 == [r2 EXCEPT !.mapName2Enum = MapPut(@, Name(enum), enum)] IN
    IF Taken(r3.mapBasicEnum, Basic(enum))
         THEN [r3 EXCEPT !.err = DuplicateKey]
    ELSE [r3 EXCEPT !.mapBasicEnum = MapPut(@, Basic(enum), enum)]

RECURSIVE NewEnumsLoop(_, _, _)
NewEnumsLoop(res, list, i) ==
    IF i > Len(list) THEN res
    ELSE NewEnumsLoop(NewEnumsStep(res, list[i]), list, i + 1)

\* NewEnums(params...): the Enums it returns, or err # NoError when it panics.
NewEnumsResult(list) ==
    NewEnumsLoop([enumElements |-> list,
                  mapProtoEnum |-> EmptyMap,
                  mapCode2Enum |-> EmptyMap,
                  mapName2Enum |-> EmptyMap,
                  mapBasicEnum |-> EmptyMap,
                  defaultValue |-> V0(list),
                  defaultValid |-> << >>,
                  err          |-> NoError], list, 1)

Init ==
    /\ phase = "fresh"
    /\ params = << >>
    /\ enumElements = << >>
    /\ mapProtoEnum = EmptyMap
    /\ mapCode2Enum = EmptyMap
    /\ mapName2Enum = EmptyMap
    /\ mapBasicEnum = EmptyMap
    /\ defaultValue = Nil
    /\ defaultValid = << >>
    /\ call = [op |-> "none", arg |-> Nil, res |-> Ok(Nil)]
    /\ callerSlice = << >>
    /\ elemsArray = Nil
    /\ setters = [g \in Goroutines |-> Idle]
    /\ simple = SimpleFresh

\* A caller runs NewEnums(list...).  When it panics no *Enums reaches the
\* caller: the receiver variables keep their fresh values.
NewEnums ==
    /\ phase = "fresh"
    /\ \E list \in ParamLists :
         LET res == NewEnumsResult(list) IN
         /\ params' = list
         /\ callerSlice' = list
         /\ UNCHANGED <<setters, simple>>
         /\ IF res.err = NoError
            THEN /\ phase' = "ready"
                 /\ elemsArray' = Clone(CallerArray)
                 /\ enumElements' = res.enumElements
                 /\ mapProtoEnum' = res.mapProtoEnum
                 /\ mapCode2Enum' = res.mapCode2Enum
                 /\ mapName2Enum' = res.mapName2Enum
                 /\ mapBasicEnum' = res.mapBasicEnum
                 /\ defaultValue' = res.defaultValue
                 /\ defaultValid' = res.defaultValid
                 /\ call' = [op |-> "NewEnums", arg |-> list, res |-> Ok("enums")]
            ELSE /\ phase' = "panicked"
                 /\ UNCHANGED <<indexes, defaultValue, defaultValid, elemsArray>>
                 /\ call' = [op |-> "NewEnums", arg |-> list, res |-> Panic(res.err)]

\* ----------------------------------------------------------- the receiver
\* Every method below has a receiver c *Enums, which exists once NewEnums
\* has returned.
Ready == phase = "ready"

\* Keys the callers look up: every key of the universe and one more.
QueryProtos == ProtoVals
QueryCodes  == CodeVals \cup {999}
QueryNames  == NameVals \cup {"NOT_EXISTS"}
QueryBasics == BasicVals \cup {"not_exists"}

\* The (entry, found) pair of the Lookup family.
Pair(enum, found) == [enum |-> enum, found |-> found]

\* must.Full(v): panics on the zero value, else returns v.
Full(v, kind) == IF v # Nil THEN Ok(v) ELSE Panic(kind)

\* ------------------------------------------------------------ GetDefault
\* Variant of GetDefault: always the first element.
GetDefault_First == Full(V0(enumElements), NoDefaultConfigured)

\* Variant of GetDefault: no must.Full, a nil default is returned.
GetDefault_NoPanic == Ok(defaultValue)

GetDefault == Full(defaultValue, NoDefaultConfigured)

\* ----------------------------------------------------- lookups by proto
LookupByProto(proto) ==
    IF proto \in DOMAIN mapProtoEnum
    THEN IF mapProtoEnum[proto] # Nil
         THEN Ok(Pair(mapProtoEnum[proto], TRUE))
         ELSE Panic(InvalidState)
    ELSE Ok(Pair(Nil, FALSE))

GetByProto(proto) ==
    IF proto \in DOMAIN mapProtoEnum
    THEN Full(mapProtoEnum[proto], InvalidState)
    ELSE GetDefault

MustGetByProto(proto) == Full(MapGet(mapProtoEnum, proto), NotFound)

\* ------------------------------------------------------ lookups by code
LookupByCode(code) ==
    IF code \in DOMAIN mapCode2Enum
    THEN IF mapCode2Enum[code] # Nil
         THEN Ok(Pair(mapCode2Enum[code], TRUE))
         ELSE Panic(InvalidState)
    ELSE Ok(Pair(Nil, FALSE))

GetByCode(code) ==
    IF code \in DOMAIN mapCode2Enum
    THEN Full(mapCode2Enum[code], InvalidState)
    ELSE GetDefault

\* Variant of MustGetByCode: falls back to the default as GetByCode does.
MustGetByCode_Lenient(code) ==
    IF code \in DOMAIN mapCode2Enum
    THEN Full(mapCode2Enum[code], InvalidState)
    ELSE Full(defaultValue, NotFound)

MustGetByCode(code) == Full(MapGet(mapCode2Enum, code), NotFound)

\* ------------------------------------------------------ lookups by name
\* Variant of LookupByName: a missing name gives the default, as GetByName.
LookupByName_Lenient(name) ==
    IF name \in DOMAIN mapName2Enum
    THEN Ok(Pair(mapName2Enum[name], TRUE))
    ELSE Ok(Pair(defaultValue, defaultValue # Nil))

LookupByName(name) ==
    IF name \in DOMAIN mapName2Enum
    THEN IF mapName2Enum[name] # Nil
         THEN Ok(Pair(mapName2Enum[name], TRUE))
         ELSE Panic(InvalidState)
    ELSE Ok(Pair(Nil, FALSE))

GetByName(name) ==
    IF name \in DOMAIN mapName2Enum
    THEN Full(mapName2Enum[name], InvalidState)
    ELSE GetDefault

MustGetByName(name) == Full(MapGet(mapName2Enum, name), NotFound)

\* ----------------------------------------------------- lookups by basic
LookupByBasic(basic) ==
    IF basic \in DOMAIN mapBasicEnum
    THEN IF mapBasicEnum[basic] # Nil
         THEN Ok(Pair(mapBasicEnum[basic], TRUE))
         ELSE Panic(InvalidState)
    ELSE Ok(Pair(Nil, FALSE))

\* Variant of GetByBasic: reads the name index.
GetByBasic_NameIndex(basic) ==
    IF basic \in DOMAIN mapName2Enum
    THEN Full(mapName2Enum[basic], InvalidState)
    ELSE GetDefault

GetByBasic(basic) ==
    IF basic \in DOMAIN mapBasicEnum
    THEN Full(mapBasicEnum[basic], InvalidState)
    ELSE GetDefault

MustGetByBasic(basic) == Full(MapGet(mapBasicEnum, basic), NotFound)

\* -------------------------------------------------------------- listings
\* The loop of ListProtos: results = append(results, item.Proto())
RECURSIVE ListProtosLoop(_, _)
ListProtosLoop(list, i) ==
    IF i > Len(list) THEN << >>
    ELSE <<Proto(list[i])>> \o ListProtosLoop(list, i + 1)

ListProtos == ListProtosLoop(enumElements, 1)

\* Variant of ListBasicsLoop: each value is put in front of the results.
RECURSIVE ListBasicsLoop_Reversed(_, _)
ListBasicsLoop_Reversed(list, i) ==
    IF i > Len(list) THEN << >>
    ELSE ListBasicsLoop_Reversed(list, i + 1) \o <<Basic(list[i])>>

\* The loop of ListBasics: results = append(results, item.Basic())
RECURSIVE ListBasicsLoop(_, _)
ListBasicsLoop(list, i) ==
    IF i > Len(list) THEN << >>
    ELSE <<Basic(list[i])>> \o ListBasicsLoop(list, i + 1)

ListBasics == ListBasicsLoop(enumElements, 1)

\* Variant of ListValidProtosLoop: each value is put in front of the results.
RECURSIVE ListValidProtosLoop_Prepend(_, _, _)
ListValidProtosLoop_Prepend(list, i, dflt) ==
    IF i > Len(list) THEN << >>
    ELSE IF Code(list[i]) # Code(dflt)
         THEN ListValidProtosLoop_Prepend(list, i + 1, dflt) \o <<Proto(list[i])>>
         ELSE ListValidProtosLoop_Prepend(list, i + 1, dflt)

\* Variant of ListValidProtosLoop: items are compared with the default by
\* pointer.
RECURSIVE ListValidProtosLoop_ByPointer(_, _, _)
ListValidProtosLoop_ByPointer(list, i, dflt) ==
    IF i > Len(list) THEN << >>
    ELSE IF list[i] # dflt
         THEN <<Proto(list[i])>> \o ListValidProtosLoop_ByPointer(list, i + 1, dflt)
         ELSE ListValidProtosLoop_ByPointer(list, i + 1, dflt)

\* The loop of ListValidProtos: items are compared with the default by Code()
RECURSIVE ListValidProtosLoop(_, _, _)
ListValidProtosLoop(list, i, dflt) ==
    IF i > Len(list) THEN << >>
    ELSE IF Code(list[i]) # Code(dflt)
         THEN <<Proto(list[i])>> \o ListValidProtosLoop(list, i + 1, dflt)
         ELSE ListValidProtosLoop(list, i + 1, dflt)

\* Variant of ListValidProtos: defaultValid is not read.
ListValidProtos_IgnoresValid ==
    IF defaultValue # Nil
    THEN ListValidProtosLoop(enumElements, 1, defaultValue)
    ELSE ListProtos

\* c.ListValidProtos()
ListValidProtos ==
    IF defaultValue # Nil /\ ~GetPointerValue(defaultValid)
    THEN ListValidProtosLoop(enumElements, 1, defaultValue)
    ELSE ListProtos

\* Variant of ListValidBasicsLoop: items are compared with the default by
\* pointer.
RECURSIVE ListValidBasicsLoop_ByPointer(_, _, _)
ListValidBasicsLoop_ByPointer(list, i, dflt) ==
    IF i > Len(list) THEN << >>
    ELSE IF list[i] # dflt
         THEN <<Basic(list[i])>> \o ListValidBasicsLoop_ByPointer(list, i + 1, dflt)
         ELSE ListValidBasicsLoop_ByPointer(list, i + 1, dflt)

\* The loop of ListValidBasics: items are compared with the default by Basic()
RECURSIVE ListValidBasicsLoop(_, _, _)
ListValidBasicsLoop(list, i, dflt) ==
    IF i > Len(list) THEN << >>
    ELSE IF Basic(list[i]) # Basic(dflt)
         THEN <<Basic(list[i])>> \o ListValidBasicsLoop(list, i + 1, dflt)
         ELSE ListValidBasicsLoop(list, i + 1, dflt)

ListValidBasics ==
    IF defaultValue # Nil /\ ~GetPointerValue(defaultValid)
    THEN ListValidBasicsLoop(enumElements, 1, defaultValue)
    ELSE ListBasics

\* --------------------------------------- GetDefaultProto / GetDefaultBasic
GetDefaultProto == IF GetDefault.ok THEN Ok(Proto(GetDefault.val)) ELSE GetDefault

GetDefaultBasic == IF GetDefault.ok THEN Ok(Basic(GetDefault.val)) ELSE GetDefault

\* ------------------------------------------------------ default mutators
\* Variant of Effect: a validity once set is never written again.
Effect_StickyValid(dv, valid, res) ==
    [defaultValue |-> dv,
     defaultValid |-> IF defaultValid # << >> THEN defaultValid ELSE valid,
     res          |-> res]

\* What a mutator leaves behind: the two default fields and its outcome.
Effect(dv, valid, res) == [defaultValue |-> dv, defaultValid |-> valid, res |-> res]

\* A panic raised before any assignment.
Abort(kind) == Effect(defaultValue, defaultValid, Panic(kind))

\* The receiver c, returned by the chain methods.
Self == "enums"

\* Variant of SetDefaultEffect: defaultValid is cleared before must.Null.
SetDefaultEffect_ClearsValidFirst(enum) ==
    IF defaultValue # Nil THEN Effect(defaultValue, << >>, Panic(InvalidState))
    ELSE IF enum = Nil THEN Abort(InvalidArgument)
    ELSE Effect(enum, << >>, Ok(Nil))

\* Variant of SetDefaultEffect: no must.Full, a nil entry is stored.
SetDefaultEffect_AcceptsNil(enum) ==
    IF defaultValue # Nil THEN Abort(InvalidState)
    ELSE Effect(enum, << >>, Ok(Nil))

\* Variant of SetDefaultEffect: no must.Null, an existing default is replaced.
SetDefaultEffect_Overwrite(enum) ==
    IF enum = Nil THEN Abort(InvalidArgument)
    ELSE Effect(enum, << >>, Ok(Nil))

\* c.SetDefault(enum)
SetDefaultEffect(enum) ==
    IF defaultValue # Nil THEN Abort(InvalidState)
    ELSE IF enum = Nil THEN Abort(InvalidArgument)
    ELSE Effect(enum, << >>, Ok(Nil))

\* Variant of SetDefaultProtoEffect: the entry is taken from the code index.
SetDefaultProtoEffect_ByCode(proto) ==
    IF MustGetByCode(Number(proto)).ok
    THEN SetDefaultEffect(MustGetByCode(Number(proto)).val)
    ELSE Abort(MustGetByCode(Number(proto)).err)

\* c.SetDefaultProto(proto): c.SetDefault(c.MustGetByProto(proto))
SetDefaultProtoEffect(proto) ==
    IF MustGetByProto(proto).ok
    THEN SetDefaultEffect(MustGetByProto(proto).val)
    ELSE Abort(MustGetByProto(proto).err)

\* c.SetDefaultBasic(basic): c.SetDefault(c.MustGetByBasic(basic))
SetDefaultBasicEffect(basic) ==
    IF MustGetByBasic(basic).ok
    THEN SetDefaultEffect(MustGetByBasic(basic).val)
    ELSE Abort(MustGetByBasic(basic).err)

\* Variant of SetDefaultValidEffect: no must.Null, defaultValid is rewritten.
SetDefaultValidEffect_Rewrite(valid) ==
    IF defaultValue = Nil THEN Abort(InvalidState)
    ELSE Effect(defaultValue, <<valid>>, Ok(Nil))

\* c.SetDefaultValid(valid)
SetDefaultValidEffect(valid) ==
    IF defaultValue = Nil THEN Abort(InvalidState)
    ELSE IF defaultValid # << >> THEN Abort(InvalidState)
    ELSE Effect(defaultValue, <<valid>>, Ok(Nil))

\* Variant of UnsetDefaultEffect: defaultValue is cleared, defaultValid stays.
UnsetDefaultEffect_KeepsValid ==
    IF defaultValue = Nil THEN Abort(InvalidState)
    ELSE Effect(Nil, defaultValid, Ok(Nil))

\* Variant of UnsetDefaultEffect: no must.Full, it returns without a default.
UnsetDefaultEffect_Idempotent == Effect(Nil, << >>, Ok(Nil))

\* Variant of UnsetDefaultEffect: defaultValid is cleared, defaultValue stays.
UnsetDefaultEffect_KeepsDefault ==
    IF defaultValue = Nil THEN Abort(InvalidState)
    ELSE Effect(defaultValue, << >>, Ok(Nil))

\* c.UnsetDefault()
UnsetDefaultEffect ==
    IF defaultValue = Nil THEN Abort(InvalidState)
    ELSE Effect(Nil, << >>, Ok(Nil))

\* return c, reached only when the call before it did not panic
ReturnSelf(eff) == IF eff.res.ok THEN [eff EXCEPT !.res = Ok(Self)] ELSE eff

\* c.WithDefault(enum)
WithDefaultEffect(enum) == ReturnSelf(SetDefaultEffect(enum))

\* c.WithDefaultProto(proto)
WithDefaultProtoEffect(proto) == ReturnSelf(SetDefaultProtoEffect(proto))

\* c.WithDefaultBasic(basic)
WithDefaultBasicEffect(basic) == ReturnSelf(SetDefaultBasicEffect(basic))

\* Variant of WithDefaultCodeEffect: an existing default is replaced.
WithDefaultCodeEffect_Replace(code) ==
    IF MapGet(mapCode2Enum, code) # Nil
    THEN ReturnSelf(SetDefaultEffect_Overwrite(MapGet(mapCode2Enum, code)))
    ELSE Abort(NotFound)

\* c.WithDefaultCode(code): c.WithDefault(must.Full(c.mapCode2Enum[code]))
WithDefaultCodeEffect(code) ==
    IF MapGet(mapCode2Enum, code) # Nil
    THEN WithDefaultEffect(MapGet(mapCode2Enum, code))
    ELSE Abort(NotFound)

\* c.WithDefaultName(name): c.WithDefault(must.Full(c.mapName2Enum[name]))
WithDefaultNameEffect(name) ==
    IF MapGet(mapName2Enum, name) # Nil
    THEN WithDefaultEffect(MapGet(mapName2Enum, name))
    ELSE Abort(NotFound)

\* c.WithDefaultValid(valid)
WithDefaultValidEffect(valid) == ReturnSelf(SetDefaultValidEffect(valid))

\* c.WithUnsetDefault()
WithUnsetDefaultEffect == ReturnSelf(UnsetDefaultEffect)

\* ----------------------------------------------------------------- actions
\* Variant of Mutate: a call that clears the default also drops the element
\* list.
Mutate_DropsElements(op, arg, eff) ==
    /\ Ready
    /\ defaultValue' = eff.defaultValue
    /\ defaultValid' = eff.defaultValid
    /\ call' = [op |-> op, arg |-> arg, res |-> eff.res]
    /\ enumElements' = IF eff.res.ok /\ eff.defaultValue = Nil THEN << >> ELSE enumElements
    /\ UNCHANGED <<phase, params, mapProtoEnum, mapCode2Enum, mapName2Enum, mapBasicEnum, beside>>

\* A call of a method that writes the default fields only.
Mutate(op, arg, eff) ==
    /\ Ready
    /\ defaultValue' = eff.defaultValue
    /\ defaultValid' = eff.defaultValid
    /\ call' = [op |-> op, arg |-> arg, res |-> eff.res]
    /\ UNCHANGED <<phase, params, indexes, beside>>

\* Variant of Query: a call that panics also clears the default.
Query_PanicClears(op, arg, res) ==
    /\ Ready
    /\ call' = [op |-> op, arg |-> arg, res |-> res]
    /\ defaultValue' = IF res.ok THEN defaultValue ELSE Nil
    /\ defaultValid' = IF res.ok THEN defaultValid ELSE << >>
    /\ UNCHANGED <<phase, params, indexes, beside>>

\* A call of a method that writes no field of the receiver.
Query(op, arg, res) ==
    /\ Ready
    /\ call' = [op |-> op, arg |-> arg, res |-> res]
    /\ UNCHANGED <<phase, params, indexes, defaultValue, defaultValid, beside>>

SetDefault       == \E enum \in EnumPtrs \cup {Nil} : Mutate("SetDefault", enum, SetDefaultEffect(enum))
WithDefault      == \E enum \in EnumPtrs \cup {Nil} : Mutate("WithDefault", enum, WithDefaultEffect(enum))
SetDefaultProto  == \E proto \in QueryProtos : Mutate("SetDefaultProto", proto, SetDefaultProtoEffect(proto))
WithDefaultProto == \E proto \in QueryProtos : Mutate("WithDefaultProto", proto, WithDefaultProtoEffect(proto))
SetDefaultBasic  == \E basic \in QueryBasics : Mutate("SetDefaultBasic", basic, SetDefaultBasicEffect(basic))
WithDefaultBasic == \E basic \in QueryBasics : Mutate("WithDefaultBasic", basic, WithDefaultBasicEffect(basic))
WithDefaultCode  == \E code \in QueryCodes : Mutate("WithDefaultCode", code, WithDefaultCodeEffect(code))
WithDefaultName  == \E name \in QueryNames : Mutate("WithDefaultName", name, WithDefaultNameEffect(name))
SetDefaultValid  == \E valid \in BOOLEAN : Mutate("SetDefaultValid", valid, SetDefaultValidEffect(valid))
WithDefaultValid == \E valid \in BOOLEAN : Mutate("WithDefaultValid", valid, WithDefaultValidEffect(valid))
UnsetDefault     == Mutate("UnsetDefault", Nil, UnsetDefaultEffect)
WithUnsetDefault == Mutate("WithUnsetDefault", Nil, WithUnsetDefaultEffect)

CallLookupByProto  == \E proto \in QueryProtos : Query("LookupByProto", proto, LookupByProto(proto))
CallGetByProto     == \E proto \in QueryProtos : Query("GetByProto", proto, GetByProto(proto))
CallMustGetByProto == \E proto \in QueryProtos : Query("MustGetByProto", proto, MustGetByProto(proto))
CallLookupByCode   == \E code \in QueryCodes : Query("LookupByCode", code, LookupByCode(code))
CallGetByCode      == \E code \in QueryCodes : Query("GetByCode", code, GetByCode(code))
CallMustGetByCode  == \E code \in QueryCodes : Query("MustGetByCode", code, MustGetByCode(code))
CallLookupByName   == \E name \in QueryNames : Query("LookupByName", name, LookupByName(name))
CallGetByName      == \E name \in QueryNames : Query("GetByName", name, GetByName(name))
CallMustGetByName  == \E name \in QueryNames : Query("MustGetByName", name, MustGetByName(name))
CallLookupByBasic  == \E basic \in QueryBasics : Query("LookupByBasic", basic, LookupByBasic(basic))
CallGetByBasic     == \E basic \in QueryBasics : Query("GetByBasic", basic, GetByBasic(basic))
CallMustGetByBasic == \E basic \in QueryBasics : Query("MustGetByBasic", basic, MustGetByBasic(basic))
CallGetDefault      == Query("GetDefault", Nil, GetDefault)
CallGetDefaultProto == Query("GetDefaultProto", Nil, GetDefaultProto)
CallGetDefaultBasic == Query("GetDefaultBasic", Nil, GetDefaultBasic)
CallListProtos      == Query("ListProtos", Nil, Ok(ListProtos))
CallListBasics      == Query("ListBasics", Nil, Ok(ListBasics))
CallListValidProtos == Query("ListValidProtos", Nil, Ok(ListValidProtos))
CallListValidBasics == Query("ListValidBasics", Nil, Ok(ListValidBasics))

\* The constructor and the methods that write the receiver.
Next ==
    \/ NewEnums
    \/ SetDefault
    \/ WithDefault
    \/ SetDefaultProto
    \/ WithDefaultProto
    \/ SetDefaultBasic
    \/ WithDefaultBasic
    \/ WithDefaultCode
    \/ WithDefaultName
    \/ SetDefaultValid
    \/ WithDefaultValid
    \/ UnsetDefault
    \/ WithUnsetDefault

Spec == Init /\ [][Next]_vars

\* The read-only methods, called between the writes.
NextCalls ==
    \/ Next
    \/ CallLookupByProto
    \/ CallGetByProto
    \/ CallMustGetByProto
    \/ CallLookupByCode
    \/ CallGetByCode
    \/ CallMustGetByCode
    \/ CallLookupByName
    \/ CallGetByName
    \/ CallMustGetByName
    \/ CallLookupByBasic
    \/ CallGetByBasic
    \/ CallMustGetByBasic
    \/ CallGetDefault
    \/ CallGetDefaultProto
    \/ CallGetDefaultBasic
    \/ CallListProtos
    \/ CallListBasics
    \/ CallListValidProtos
    \/ CallListValidBasics

SpecCalls == Init /\ [][NextCalls]_vars

\* ---------------------------------------------- SetDefault, step by step
\* SetDefault holds no lock: between two of its statements another goroutine
\* may run.  A goroutine g calls c.SetDefault(enum) once; setters[g].pc is
\* the statement it is to run next, or how its call ended.  Reads and
\* writes of the pointer fields are single steps, so of two racing accesses
\* either may come first.

\* Entries the goroutines pass to SetDefault.
SetterArgs == {"e1", "e2", Nil}

AllIdle == \A g \in Goroutines : setters[g] = Idle

\* The goroutine g makes one step that leaves the collection's maps alone.
SetterStep(g, pc) ==
    /\ Ready
    /\ setters' = [setters EXCEPT ![g].pc = pc]
    /\ UNCHANGED <<phase, params, indexes, call, callerSlice, elemsArray, simple>>

\* g calls c.SetDefault(enum)
SetDefaultBegin(g) ==
    /\ Ready
    /\ setters[g] = Idle
    /\ \E enum \in SetterArgs : setters' = [setters EXCEPT ![g] = [pc |-> "null", enum |-> enum]]
    /\ UNCHANGED <<phase, params, indexes, call, callerSlice, elemsArray,
                   defaultValue, defaultValid, simple>>

\* Variant of SetDefaultMustNull: no must.Null, g goes on to the assignment.
SetDefaultMustNull_NoCheck(g) ==
    /\ setters[g].pc = "null"
    /\ SetterStep(g, "full")
    /\ UNCHANGED <<defaultValue, defaultValid>>

\* must.Null(c.defaultValue)
SetDefaultMustNull(g) ==
    /\ setters[g].pc = "null"
    /\ SetterStep(g, IF defaultValue # Nil THEN InvalidState ELSE "full")
    /\ UNCHANGED <<defaultValue, defaultValid>>

\* c.defaultValue = must.Full(enum)
SetDefaultAssign(g) ==
    /\ setters[g].pc = "full"
    /\ IF setters[g].enum = Nil
       THEN /\ SetterStep(g, InvalidArgument)
            /\ UNCHANGED <<defaultValue, defaultValid>>
       ELSE /\ SetterStep(g, "valid")
            /\ defaultValue' = setters[g].enum
            /\ UNCHANGED defaultValid

\* c.defaultValid = nil, and the return
SetDefaultClearValid(g) ==
    /\ setters[g].pc = "valid"
    /\ SetterStep(g, "returned")
    /\ defaultValid' = << >>
    /\ UNCHANGED defaultValue

\* UnsetDefault() before any goroutine has called SetDefault.
UnsetDefaultBefore == AllIdle /\ UnsetDefault

\* SetDefaultValid(valid) before any goroutine has called SetDefault.
SetDefaultValidBefore == AllIdle /\ SetDefaultValid

NextSetters ==
    \/ NewEnums
    \/ UnsetDefaultBefore
    \/ SetDefaultValidBefore
    \/ \E g \in Goroutines : SetDefaultBegin(g)
    \/ \E g \in Goroutines : SetDefaultMustNull(g)
    \/ \E g \in Goroutines : SetDefaultAssign(g)
    \/ \E g \in Goroutines : SetDefaultClearValid(g)

SpecSetters == Init /\ [][NextSetters]_vars

\* ------------------------------------------------- the caller's own slices
\* After NewEnums(list...) the caller still holds list, and after a List
\* call the slice it was returned; it may write into both.

\* What the caller writes into its argument list: nil, or the entry at the
\* end of the list (which moves or repeats that entry).
WriteVals == {Nil} \cup {callerSlice[i] : i \in {Len(callerSlice)} \cap DOMAIN callerSlice}

\* list[i] = enum by the caller, on the array of the argument list; it
\* writes c.enumElements too when that slice is on the same array.
CallerWrites ==
    /\ Ready
    /\ \E i \in 1..Len(callerSlice), enum \in WriteVals :
           /\ callerSlice' = [callerSlice EXCEPT ![i] = enum]
           /\ enumElements' = IF elemsArray = CallerArray
                               THEN [enumElements EXCEPT ![i] = enum]
                               ELSE enumElements
    /\ UNCHANGED <<phase, params, mapProtoEnum, mapCode2Enum, mapName2Enum,
                   mapBasicEnum, defaultValue, defaultValid, call, elemsArray, setters,
                   simple>>

\* The List methods, each returning a slice made by make or append.
ListOps == {"ListProtos", "ListBasics", "ListValidProtos", "ListValidBasics"}

\* results[i] = results[0] by the caller on the slice the last List call
\* returned: call.res is that slice as the caller now has it.
CallerWritesResult ==
    /\ Ready
    /\ call.op \in ListOps \cup {"WriteResult"}
    /\ call.res.ok
    /\ \E i \in 1..Len(call.res.val) :
           call' = [op |-> "WriteResult", arg |-> Nil,
                    res |-> Ok([call.res.val EXCEPT ![i] = call.res.val[1]])]
    /\ UNCHANGED <<phase, params, indexes, defaultValue, defaultValid, beside>>

NextSlices ==
    \/ NewEnums
    \/ CallerWrites
    \/ CallListProtos
    \/ CallListBasics
    \/ CallListValidProtos
    \/ CallListValidBasics
    \/ CallerWritesResult

SpecSlices == Init /\ [][NextSlices]_vars

\* ------------------------------------------------ the three-index variant
\* The variant of Enums with mapCode2Enum, mapName2Enum, mapPure2Enum and
\* defaultValue only.  Each operator takes the collection s and gives the
\* result of the method, or s as the method leaves it with the outcome in
\* s.res.

\* One iteration of the loop of NewEnums of this variant.
SimpleNewEnumsStep(res, enum) ==
    IF res.err # NoError THEN res
    ELSE IF enum = Nil THEN [res EXCEPT !.err = InvalidArgument]
    ELSE IF Taken(res.mapCode2Enum, Code(enum))
         THEN [res EXCEPT !.err = DuplicateKey]
    ELSE LET r1 == [res EXCEPT !.mapCode2Enum = MapPut(@, Code(enum), enum)] IN
    IF Taken(r1.mapName2Enum, Name(enum))
         THEN [r1 EXCEPT !.err = DuplicateKey]
    ELSE LET r2 == [r1 EXCEPT !.mapName2Enum = MapPut(@, Name(enum), enum)] IN
    IF Taken(r2.mapPure2Enum, Pure(enum))
         THEN [r2 EXCEPT !.err = DuplicateKey]
    ELSE [r2 EXCEPT !.mapPure2Enum = MapPut(@, Pure(enum), enum)]

RECURSIVE SimpleNewEnumsLoop(_, _, _)
SimpleNewEnumsLoop(res, list, i) ==
    IF i > Len(list) THEN res
    ELSE SimpleNewEnumsLoop(SimpleNewEnumsStep(res, list[i]), list, i + 1)

\* NewEnums(params...) of this variant: the loop, then the first entry
\* becomes the default if there are entries.  When it panics no *Enums
\* reaches the caller.
SimpleNewEnums(list) ==
    LET res == SimpleNewEnumsLoop([mapCode2Enum |-> EmptyMap,
                                   mapName2Enum |-> EmptyMap,
                                   mapPure2Enum |-> EmptyMap,
                                   err          |-> NoError], list, 1)
    IN  IF res.err # NoError
        THEN [SimpleFresh EXCEPT !.phase = "panicked", !.res = Panic(res.err)]
        ELSE [phase        |-> "ready",
              mapCode2Enum |-> res.mapCode2Enum,
              mapName2Enum |-> res.mapName2Enum,
              mapPure2Enum |-> res.mapPure2Enum,
              defaultValue |-> IF Len(list) > 0 THEN list[1] ELSE Nil,
              seen         |-> SimpleFresh.seen,
              res          |-> Ok(Self)]

\* A method of this variant that writes no field.
SimpleReturn(s, res) == [s EXCEPT !.res = res]

SimpleGetDefault(s) == Full(s.defaultValue, NoDefaultConfigured)

SimpleGetByCode(s, code) ==
    IF code \in DOMAIN s.mapCode2Enum
    THEN Full(s.mapCode2Enum[code], InvalidState)
    ELSE SimpleGetDefault(s)

SimpleMustGetByCode(s, code) == Full(MapGet(s.mapCode2Enum, code), NotFound)

SimpleGetByName(s, name) ==
    IF name \in DOMAIN s.mapName2Enum
    THEN Full(s.mapName2Enum[name], InvalidState)
    ELSE SimpleGetDefault(s)

SimpleMustGetByName(s, name) == Full(MapGet(s.mapName2Enum, name), NotFound)

SimpleGetByPure(s, pure) ==
    IF pure \in DOMAIN s.mapPure2Enum
    THEN Full(s.mapPure2Enum[pure], InvalidState)
    ELSE SimpleGetDefault(s)

SimpleMustGetByPure(s, pure) == Full(MapGet(s.mapPure2Enum, pure), NotFound)

\* c.SetDefault(defaultEnum): must.Null(c.defaultValue), then
\* c.defaultValue = must.Full(defaultEnum)
SimpleSetDefault(s, enum) ==
    IF s.defaultValue # Nil THEN SimpleReturn(s, Panic(InvalidState))
    ELSE IF enum = Nil THEN SimpleReturn(s, Panic(InvalidArgument))
    ELSE [s EXCEPT !.defaultValue = enum, !.res = Ok(Nil)]

\* Variant of SimpleUnsetDefault: no must.Full, it returns without a default.
SimpleUnsetDefault_Idempotent(s) == [s EXCEPT !.defaultValue = Nil, !.res = Ok(Nil)]

\* c.UnsetDefault(): must.Full(c.defaultValue), then c.defaultValue = nil
SimpleUnsetDefault(s) ==
    IF s.defaultValue = Nil THEN SimpleReturn(s, Panic(InvalidState))
    ELSE [s EXCEPT !.defaultValue = Nil, !.res = Ok(Nil)]

\* return c, reached only when the call before it did not panic
SimpleReturnSelf(s) == IF s.res.ok THEN SimpleReturn(s, Ok(Self)) ELSE s

\* c.WithDefaultEnum(defaultEnum)
SimpleWithDefaultEnum(s, enum) == SimpleReturnSelf(SimpleSetDefault(s, enum))

\* c.WithDefaultCode(code): c.WithDefaultEnum(must.Full(c.mapCode2Enum[code]))
SimpleWithDefaultCode(s, code) ==
    IF MapGet(s.mapCode2Enum, code) # Nil
    THEN SimpleWithDefaultEnum(s, MapGet(s.mapCode2Enum, code))
    ELSE SimpleReturn(s, Panic(NotFound))

\* c.WithDefaultName(name): c.WithDefaultEnum(must.Full(c.mapName2Enum[name]))
SimpleWithDefaultName(s, name) ==
    IF MapGet(s.mapName2Enum, name) # Nil
    THEN SimpleWithDefaultEnum(s, MapGet(s.mapName2Enum, name))
    ELSE SimpleReturn(s, Panic(NotFound))

\* c.WithUnsetDefault()
SimpleWithUnsetDefault(s) == SimpleReturnSelf(SimpleUnsetDefault(s))

\* The method of this variant that answers to the name op of the
\* four-index variant, called on s with arg.
SimpleCall(s, op, arg) ==
    CASE op = "GetDefault"       -> SimpleReturn(s, SimpleGetDefault(s))
      [] op = "GetByCode"        -> SimpleReturn(s, SimpleGetByCode(s, arg))
      [] op = "MustGetByCode"    -> SimpleReturn(s, SimpleMustGetByCode(s, arg))
      [] op = "GetByName"        -> SimpleReturn(s, SimpleGetByName(s, arg))
      [] op = "MustGetByName"    -> SimpleReturn(s, SimpleMustGetByName(s, arg))
      [] op = "GetByBasic"       -> SimpleReturn(s, SimpleGetByPure(s, arg))
      [] op = "MustGetByBasic"   -> SimpleReturn(s, SimpleMustGetByPure(s, arg))
      [] op = "SetDefault"       -> SimpleSetDefault(s, arg)
      [] op = "UnsetDefault"     -> SimpleUnsetDefault(s)
      [] op = "WithDefaultCode"  -> SimpleWithDefaultCode(s, arg)
      [] op = "WithDefaultName"  -> SimpleWithDefaultName(s, arg)
      [] op = "WithUnsetDefault" -> SimpleWithUnsetDefault(s)

\* The call the four-index collection was given last has been given to
\* the three-index collection too.
Replayed == simple.seen = call

\* The caller gives the last call to the three-index variant: NewEnums
\* with the same list, or the method on the collection NewEnums returned
\* (there is none to call when NewEnums panicked).
SimpleReplay ==
    /\ ~Replayed
    /\ simple' = [(IF call.op = "NewEnums" THEN SimpleNewEnums(call.arg)
                   ELSE IF simple.phase = "ready"
                        THEN SimpleCall(simple, call.op, call.arg)
                        ELSE simple)
                  EXCEPT !.seen = call]
    /\ UNCHANGED <<phase, params, indexes, defaultValue, defaultValid, call,
                   callerSlice, elemsArray, setters>>

\* No call is under way: the caller has taken the results of its last
\* call on both collections, or has made none yet.
Between == Replayed /\ call.op = "none"

\* The caller has compared what the two collections returned and goes on
\* to its next call.
CallerMovesOn ==
    /\ Replayed
    /\ call.op # "none"
    /\ call' = SimpleFresh.seen
    /\ simple' = [simple EXCEPT !.seen = SimpleFresh.seen, !.res = SimpleFresh.res]
    /\ UNCHANGED <<phase, params, indexes, defaultValue, defaultValid,
                   callerSlice, elemsArray, setters>>

\* The operations the two variants share, each given to both collections
\* before the next one.
BothNewEnums         == Between /\ NewEnums
BothSetDefault       == Between /\ SetDefault
BothUnsetDefault     == Between /\ UnsetDefault
BothWithDefaultCode  == Between /\ WithDefaultCode
BothWithDefaultName  == Between /\ WithDefaultName
BothWithUnsetDefault == Between /\ WithUnsetDefault
BothGetDefault       == Between /\ CallGetDefault
BothGetByCode        == Between /\ CallGetByCode
BothMustGetByCode    == Between /\ CallMustGetByCode
BothGetByName        == Between /\ CallGetByName
BothMustGetByName    == Between /\ CallMustGetByName
BothGetByBasic       == Between /\ CallGetByBasic
BothMustGetByBasic   == Between /\ CallMustGetByBasic

NextBoth ==
    \/ BothNewEnums
    \/ BothSetDefault
    \/ BothUnsetDefault
    \/ BothWithDefaultCode
    \/ BothWithDefaultName
    \/ BothWithUnsetDefault
    \/ BothGetDefault
    \/ BothGetByCode
    \/ BothMustGetByCode
    \/ BothGetByName
    \/ BothMustGetByName
    \/ BothGetByBasic
    \/ BothMustGetByBasic
    \/ SimpleReplay
    \/ CallerMovesOn

SpecBoth == Init /\ [][NextBoth]_vars

\* ================================================================ properties
\* The entries of the collection, and the keys they occupy.
Elements == {enumElements[i] : i \in 1..Len(enumElements)}

ProtoAbsent(proto) == \A e \in Elements : Proto(e) # proto
CodeAbsent(code)   == \A e \in Elements : Code(e) # code
NameAbsent(name)   == \A e \in Elements : Name(e) # name
BasicAbsent(basic) == \A e \in Elements : Basic(e) # basic

HasNil(list) == \E i \in 1..Len(list) : list[i] = Nil

SharesKey(a, b) == Code(a) = Code(b) \/ Name(a) = Name(b) \/ Basic(a) = Basic(b)

HasCollision(list) ==
    \E i, j \in 1..Len(list) :
        i < j /\ list[i] # Nil /\ list[j] # Nil /\ SharesKey(list[i], list[j])

NoEnums ==
    /\ enumElements = << >>
    /\ mapProtoEnum = EmptyMap /\ mapCode2Enum = EmptyMap
    /\ mapName2Enum = EmptyMap /\ mapBasicEnum = EmptyMap
    /\ defaultValue = Nil /\ defaultValid = << >>

DefaultValidSet == GetPointerValue(defaultValid)

\* ----------------------------------------------------------------------- C1
\* C1: NewEnums panics for every argument list in which two entries share a
\* code, a name or a basic value, with DuplicateKey when no entry is nil;
\* when it panics the caller gets no Enums at all; for every list of non-nil
\* entries with pairwise distinct codes, names and basic values it returns
\* an Enums that holds every entry of the list under its own keys.
C1_ConstructorUniqueness ==
    phase # "fresh" =>
        /\ HasCollision(params) => phase = "panicked"
        /\ (~HasNil(params) /\ ~HasCollision(params)) => phase = "ready"
        /\ phase = "panicked" => NoEnums
        /\ (call.op = "NewEnums" /\ HasCollision(params) /\ ~HasNil(params))
               => call.res = Panic(DuplicateKey)
        /\ phase = "ready" =>
               /\ Len(enumElements) = Len(params)
               /\ Cardinality(DOMAIN mapCode2Enum) = Len(params)
               /\ Cardinality(DOMAIN mapName2Enum) = Len(params)
               /\ Cardinality(DOMAIN mapBasicEnum) = Len(params)

\* NewEnums panicked on a list of three non-nil entries whose only collision
\* is a shared basic value.
C1_Witness ==
    /\ phase = "panicked"
    /\ call.op = "NewEnums"
    /\ call.res = Panic(DuplicateKey)
    /\ Len(params) = 3
    /\ ~HasNil(params)
    /\ \A i, j \in 1..3 : i < j =>
           /\ Code(params[i]) # Code(params[j])
           /\ Name(params[i]) # Name(params[j])
    /\ \E i, j \in 1..3 : i < j /\ Basic(params[i]) = Basic(params[j])

\* ----------------------------------------------------------------------- C2
\* C2: right after NewEnums has returned for a non-empty list, GetDefault()
\* returns the first entry of that list.
C2_DefaultIsFirst ==
    (call.op = "NewEnums" /\ call.res.ok /\ Len(params) > 0)
        => GetDefault = Ok(params[1])

\* NewEnums has just returned for three entries and GetDefault() is the first.
C2_Witness ==
    /\ call.op = "NewEnums"
    /\ call.res.ok
    /\ Len(params) = 3
    /\ GetDefault.ok
    /\ GetDefault.val = params[1]
    /\ GetDefault.val # params[3]

\* ----------------------------------------------------------------------- C3
\* C3: whenever a default d is set, GetByCode, GetByName, GetByBasic and
\* GetByProto called with a key that no entry of the collection has return
\* exactly d.
C3_LenientFallback ==
    (Ready /\ defaultValue # Nil) =>
        /\ \A code \in QueryCodes :
               CodeAbsent(code) => GetByCode(code) = Ok(defaultValue)
        /\ \A name \in QueryNames :
               NameAbsent(name) => GetByName(name) = Ok(defaultValue)
        /\ \A basic \in QueryBasics :
               BasicAbsent(basic) => GetByBasic(basic) = Ok(defaultValue)
        /\ \A proto \in QueryProtos :
               ProtoAbsent(proto) => GetByProto(proto) = Ok(defaultValue)

\* The default was replaced (UnsetDefault, then SetDefault with another entry
\* than the first) and a lookup of an absent code returns the new default.
C3_Witness ==
    /\ Ready
    /\ call.op = "SetDefault"
    /\ call.res.ok
    /\ Len(params) > 1
    /\ defaultValue = params[2]
    /\ CodeAbsent(999)
    /\ GetByCode(999) = Ok(params[2])

\* ----------------------------------------------------------------------- C4
\* C4: for every key that no entry of the collection has, MustGetByCode,
\* MustGetByName, MustGetByBasic and MustGetByProto panic with NotFound,
\* with or without a default.
C4_StrictMiss ==
    Ready =>
        /\ \A code \in QueryCodes :
               CodeAbsent(code) => MustGetByCode(code) = Panic(NotFound)
        /\ \A name \in QueryNames :
               NameAbsent(name) => MustGetByName(name) = Panic(NotFound)
        /\ \A basic \in QueryBasics :
               BasicAbsent(basic) => MustGetByBasic(basic) = Panic(NotFound)
        /\ \A proto \in QueryProtos :
               ProtoAbsent(proto) => MustGetByProto(proto) = Panic(NotFound)

\* A default is set, GetByCode falls back to it for an absent code, and
\* MustGetByCode panics for the same code.
C4_Witness ==
    /\ Ready
    /\ defaultValue # Nil
    /\ Len(enumElements) = 2
    /\ \E code \in QueryCodes :
           /\ CodeAbsent(code)
           /\ GetByCode(code) = Ok(defaultValue)
           /\ ~MustGetByCode(code).ok

\* ----------------------------------------------------------------------- C5
\* C5: for every entry e given to a NewEnums that returned, GetByCode(e.Code()),
\* GetByName(e.Name()) and GetByBasic(e.Basic()) return the pointer e itself,
\* whatever the default is.
C5_RoundTrip ==
    Ready =>
        \A i \in 1..Len(params) :
            /\ GetByCode(Code(params[i])) = Ok(params[i])
            /\ GetByName(Name(params[i])) = Ok(params[i])
            /\ GetByBasic(Basic(params[i])) = Ok(params[i])

\* The default is an object outside the collection with the content of its
\* first entry; the lookups still return the collection's own entries.
C5_Witness ==
    /\ Ready
    /\ Len(params) = 3
    /\ defaultValue # Nil
    /\ defaultValue \notin Elements
    /\ Code(defaultValue) = Code(params[1])
    /\ GetByCode(Code(params[1])) = Ok(params[1])
    /\ GetByBasic(Basic(params[3])) = Ok(params[3])

\* ----------------------------------------------------------------------- C6
\* C6: a lenient lookup of an absent key panics exactly when no default is
\* set, and then with NoDefaultConfigured; a lookup of a present key returns
\* the entry with that key, with or without a default.
C6_ThreeOutcomes ==
    Ready =>
        /\ \A code \in QueryCodes :
               IF CodeAbsent(code)
               THEN /\ GetByCode(code).ok <=> defaultValue # Nil
                    /\ ~GetByCode(code).ok => GetByCode(code).err = NoDefaultConfigured
               ELSE /\ GetByCode(code).ok
                    /\ GetByCode(code).val \in Elements
                    /\ Code(GetByCode(code).val) = code
        /\ \A name \in QueryNames :
               IF NameAbsent(name)
               THEN /\ GetByName(name).ok <=> defaultValue # Nil
                    /\ ~GetByName(name).ok => GetByName(name).err = NoDefaultConfigured
               ELSE /\ GetByName(name).ok
                    /\ GetByName(name).val \in Elements
                    /\ Name(GetByName(name).val) = name
        /\ \A basic \in QueryBasics :
               IF BasicAbsent(basic)
               THEN /\ GetByBasic(basic).ok <=> defaultValue # Nil
                    /\ ~GetByBasic(basic).ok => GetByBasic(basic).err = NoDefaultConfigured
               ELSE /\ GetByBasic(basic).ok
                    /\ GetByBasic(basic).val \in Elements
                    /\ Basic(GetByBasic(basic).val) = basic
        /\ \A proto \in QueryProtos :
               IF ProtoAbsent(proto)
               THEN /\ GetByProto(proto).ok <=> defaultValue # Nil
                    /\ ~GetByProto(proto).ok => GetByProto(proto).err = NoDefaultConfigured
               ELSE /\ GetByProto(proto).ok
                    /\ GetByProto(proto).val \in Elements
                    /\ Proto(GetByProto(proto).val) = proto

\* UnsetDefault has just returned on a collection of two entries: an absent
\* code panics, a present code still returns its entry.
C6_Witness ==
    /\ Ready
    /\ call.op = "UnsetDefault"
    /\ call.res.ok
    /\ Len(enumElements) = 2
    /\ GetByCode(999) = Panic(NoDefaultConfigured)
    /\ GetByCode(Code(enumElements[2])) = Ok(enumElements[2])

\* ----------------------------------------------------------------------- C7
\* C7: a call SetDefault(e) with non-nil e returns if and only if no default
\* is set at the moment of the call; when it returns, GetDefault() returns e;
\* when a default exists it panics with InvalidState and the default stays.
C7_SetDefaultLifecycle ==
    [][(call'.op = "SetDefault" /\ call'.arg # Nil) =>
           /\ call'.res.ok <=> defaultValue = Nil
           /\ call'.res.ok => GetDefault' = Ok(call'.arg)
           /\ ~call'.res.ok =>
                  /\ call'.res = Panic(InvalidState)
                  /\ defaultValue' = defaultValue]_vars

\* SetDefault has returned on a collection that NewEnums gave a default, so
\* an UnsetDefault came in between; GetDefault() is the entry it was given.
C7_Witness ==
    /\ Ready
    /\ call.op = "SetDefault"
    /\ call.res.ok
    /\ Len(params) = 3
    /\ call.arg = params[3]
    /\ GetDefault = Ok(params[3])

\* ----------------------------------------------------------------------- C8
DefaultIsMember == defaultValue # Nil => defaultValue \in Elements

\* C8 as claimed: in every reachable state a default that is set is one of
\* the entries of enumElements.
C8_DefaultAlwaysMember == Ready => DefaultIsMember

\* C8: NewEnums, SetDefaultProto, SetDefaultBasic, WithDefaultProto,
\* WithDefaultBasic, WithDefaultCode, WithDefaultName, SetDefaultValid,
\* WithDefaultValid, UnsetDefault and WithUnsetDefault never leave a default
\* that is not an entry of enumElements, and neither do SetDefault and
\* WithDefault when the entry they are given is one: a default outside
\* enumElements comes only from a SetDefault or WithDefault call given an
\* entry outside enumElements, which they accept.
C8_DefaultMemberUnlessForeignSet ==
    [][(/\ DefaultIsMember
        /\ ~(/\ call'.op \in {"SetDefault", "WithDefault"}
             /\ call'.arg \notin Elements'))
       => DefaultIsMember']_vars

\* WithDefaultCode has installed an entry of the collection other than the
\* first as the default.
C8_Witness ==
    /\ Ready
    /\ call.op = "WithDefaultCode"
    /\ call.res.ok
    /\ Len(params) = 3
    /\ defaultValue = params[2]
    /\ defaultValue \in Elements

\* ----------------------------------------------------------------------- C9
\* C9: in every state ListProtos() and ListBasics() are the Proto() and the
\* Basic() of the entries given to NewEnums, one each, in the order given;
\* for an empty collection both are the empty sequence.
C9_ListOrder ==
    Ready =>
        /\ Len(ListProtos) = Len(params)
        /\ Len(ListBasics) = Len(params)
        /\ \A i \in 1..Len(params) :
               /\ ListProtos[i] = Proto(params[i])
               /\ ListBasics[i] = Basic(params[i])
        /\ (params = << >>) => (ListProtos = << >> /\ ListBasics = << >>)

\* The listing of three entries, with the default unset.
C9_Witness ==
    /\ Ready
    /\ defaultValue = Nil
    /\ params = <<"e3", "e1", "e4">>
    /\ ListProtos = <<"P1b", "P0", "P3">>
    /\ ListBasics = <<"alias", "unknown", "other">>

\* ---------------------------------------------------------------------- C10
\* The elements that have the code of the default.
DefaultCodeMatches == {i \in 1..Len(enumElements) : Code(enumElements[i]) = Code(defaultValue)}

\* ListValidProtos() omits the elements with the default's code, and only them.
OmitsDefaultCodeOnly ==
    \A i \in 1..Len(enumElements) :
        (\E k \in 1..Len(ListValidProtos) : ListValidProtos[k] = Proto(enumElements[i]))
            <=> Code(enumElements[i]) # Code(defaultValue)

\* C10 as claimed: with a default set and not marked valid, ListValidProtos()
\* has length len(enumElements) - 1 and omits exactly the element with the
\* default's code.
C10_ValidListOneShorter ==
    (Ready /\ defaultValue # Nil /\ ~DefaultValidSet) =>
        /\ Len(ListValidProtos) = Len(enumElements) - 1
        /\ OmitsDefaultCodeOnly

\* C10: with a default set and not marked valid, ListValidProtos() omits
\* exactly the elements with the default's code; when an element has that
\* code (as whenever the default is an element) it is the only one and the
\* length is len(enumElements) - 1; when none has it (a default installed by
\* SetDefault or WithDefault from outside the collection) nothing is omitted
\* and ListValidProtos() equals ListProtos().
C10_ValidListOmitsDefaultCode ==
    (Ready /\ defaultValue # Nil /\ ~DefaultValidSet) =>
        /\ OmitsDefaultCodeOnly
        /\ DefaultCodeMatches # {} =>
               /\ Cardinality(DefaultCodeMatches) = 1
               /\ Len(ListValidProtos) = Len(enumElements) - 1
        /\ DefaultCodeMatches = {} => ListValidProtos = ListProtos
        /\ defaultValue \in Elements => DefaultCodeMatches # {}

\* The default is the second of three elements and is not marked valid:
\* ListValidProtos() is the first and the third.
C10_Witness ==
    /\ Ready
    /\ Len(enumElements) = 3
    /\ defaultValue = enumElements[2]
    /\ defaultValid = <<FALSE>>
    /\ ListValidProtos = <<Proto(enumElements[1]), Proto(enumElements[3])>>

\* ---------------------------------------------------------------------- C11
\* C11: whenever no default is set, ListValidProtos() equals ListProtos() and
\* ListValidBasics() equals ListBasics(), element for element and in the same
\* order; no default is set right after UnsetDefault or WithUnsetDefault has
\* returned, and on the collection NewEnums() builds from no entries.
C11_NoDefaultListsEqual ==
    Ready =>
        /\ defaultValue = Nil =>
               /\ ListValidProtos = ListProtos
               /\ ListValidBasics = ListBasics
        /\ (call.op \in {"UnsetDefault", "WithUnsetDefault"} /\ call.res.ok) =>
               /\ ListValidProtos = ListProtos
               /\ ListValidBasics = ListBasics
        /\ params = << >> =>
               /\ ListValidProtos = ListProtos
               /\ ListValidBasics = ListBasics

\* UnsetDefault has returned on a collection of three entries: both valid
\* listings have all three.
C11_Witness ==
    /\ Ready
    /\ call.op = "UnsetDefault"
    /\ call.res.ok
    /\ defaultValue = Nil
    /\ Len(enumElements) = 3
    /\ Len(ListValidProtos) = 3
    /\ ListValidBasics = ListBasics

\* ---------------------------------------------------------------------- C12
\* The values a listing holds.
Range(list) == {list[i] : i \in 1..Len(list)}

\* The valid listings are the full listings and hold the default's values
\* (the default being an entry of the collection).
IncludesDefault ==
    /\ ListValidProtos = ListProtos
    /\ ListValidBasics = ListBasics
    /\ defaultValue \in Elements =>
           /\ Proto(defaultValue) \in Range(ListValidProtos)
           /\ Basic(defaultValue) \in Range(ListValidBasics)

\* The valid listings hold neither the default's proto nor its basic value.
ExcludesDefault ==
    /\ Proto(defaultValue) \notin Range(ListValidProtos)
    /\ Basic(defaultValue) \notin Range(ListValidBasics)

UnsetReturns == call.op \in {"UnsetDefault", "WithUnsetDefault"} /\ call.res.ok

\* The listings in a state: with the default marked valid they include it,
\* with a default marked not valid or not marked at all they leave it out.
ValidFlagDecides ==
    Ready =>
        /\ defaultValid = <<TRUE>> => IncludesDefault
        /\ (defaultValue # Nil /\ defaultValid \in {<< >>, <<FALSE>>}) => ExcludesDefault

\* The mark in a step: SetDefaultValid(v) that returns leaves the mark v, and
\* the mark true and its default stay through every call but an UnsetDefault
\* that returns.
ValidFlagLasts ==
    /\ (/\ call'.op \in {"SetDefaultValid", "WithDefaultValid"}
        /\ call'.res.ok) => (defaultValue' # Nil /\ defaultValid' = <<call'.arg>>)
    /\ (defaultValid = <<TRUE>> /\ ~UnsetReturns') =>
           /\ defaultValid' = <<TRUE>>
           /\ defaultValue' = defaultValue

SetsValid == call.op \in {"SetDefaultValid", "WithDefaultValid"}

\* C13: SetDefaultValid(v) and WithDefaultValid(v) panic when no default is
\* set and when defaultValid was already set by an earlier call that
\* returned, whatever v is; otherwise they return and record v, leaving the
\* default entry; a panic writes nothing; of two consecutive calls at most
\* one returns.
C13_SetDefaultValidOnce ==
    [][SetsValid' =>
           /\ call'.res.ok <=> (defaultValue # Nil /\ defaultValid = << >>)
           /\ call'.res.ok =>
                  /\ defaultValid' = <<call'.arg>>
                  /\ defaultValue' = defaultValue
           /\ ~call'.res.ok =>
                  /\ call'.res = Panic(InvalidState)
                  /\ defaultValid' = defaultValid
                  /\ defaultValue' = defaultValue
           /\ (SetsValid /\ call.res.ok) => ~call'.res.ok]_vars

\* SetDefaultValid(true) has panicked on a default already marked false.
C13_Witness ==
    /\ Ready
    /\ call.op = "SetDefaultValid"
    /\ call.arg = TRUE
    /\ call.res = Panic(InvalidState)
    /\ defaultValue # Nil
    /\ defaultValid = <<FALSE>>

\* ---------------------------------------------------------------------- C14
Unsets == call.op \in {"UnsetDefault", "WithUnsetDefault"}

\* C14: UnsetDefault() panics with InvalidState, writing nothing, when no
\* default is set, so of two consecutive calls at most one returns; when a
\* default is set it returns and clears both defaultValue and defaultValid,
\* and GetDefault(), GetDefaultProto() and GetDefaultBasic() then panic.
C14_UnsetDefaultClears ==
    [][Unsets' =>
           /\ call'.res.ok <=> defaultValue # Nil
           /\ ~call'.res.ok =>
                  /\ call'.res = Panic(InvalidState)
                  /\ defaultValue' = Nil
                  /\ defaultValid' = defaultValid
           /\ call'.res.ok =>
                  /\ defaultValue' = Nil
                  /\ defaultValid' = << >>
                  /\ ~GetDefault'.ok
                  /\ ~GetDefaultProto'.ok
                  /\ ~GetDefaultBasic'.ok
           /\ (Unsets /\ call.res.ok) => ~call'.res.ok]_vars

\* UnsetDefault() has panicked on a collection of two entries, whose default
\* an earlier UnsetDefault() cleared.
C14_Witness ==
    /\ Ready
    /\ call.op = "UnsetDefault"
    /\ call.res = Panic(InvalidState)
    /\ Len(enumElements) = 2
    /\ defaultValue = Nil
    /\ defaultValid = << >>
    /\ ~GetDefaultProto.ok

\* ---------------------------------------------------------------------- C15
\* What a Lookup must give for a key: the element that has it, with true,
\* or nil with false when no element has it.
Found(e) == Ok(Pair(e, TRUE))
NotFoundPair == Ok(Pair(Nil, FALSE))

\* C15: in every state LookupByProto, LookupByCode, LookupByName and
\* LookupByBasic return for every key: (e, true) when the key is that of the
\* element e, and (nil, false) when no element has it, whether or not a
\* default is set; they never panic and never give the default for a key no
\* element has.
C15_LookupNeverFails ==
    Ready =>
        /\ \A proto \in QueryProtos :
               /\ LookupByProto(proto).ok
               /\ \A e \in Elements : Proto(e) = proto => LookupByProto(proto) = Found(e)
               /\ ProtoAbsent(proto) => LookupByProto(proto) = NotFoundPair
        /\ \A code \in QueryCodes :
               /\ LookupByCode(code).ok
               /\ \A e \in Elements : Code(e) = code => LookupByCode(code) = Found(e)
               /\ CodeAbsent(code) => LookupByCode(code) = NotFoundPair
        /\ \A name \in QueryNames :
               /\ LookupByName(name).ok
               /\ \A e \in Elements : Name(e) = name => LookupByName(name) = Found(e)
               /\ NameAbsent(name) => LookupByName(name) = NotFoundPair
        /\ \A basic \in QueryBasics :
               /\ LookupByBasic(basic).ok
               /\ \A e \in Elements : Basic(e) = basic => LookupByBasic(basic) = Found(e)
               /\ BasicAbsent(basic) => LookupByBasic(basic) = NotFoundPair

\* A default is set on a collection of two entries: a name no entry has is
\* looked up as (nil, false), the code of the second entry as that entry.
C15_Witness ==
    /\ Ready
    /\ Len(enumElements) = 2
    /\ defaultValue = enumElements[1]
    /\ LookupByName("NOT_EXISTS") = NotFoundPair
    /\ LookupByProto("P1b") = NotFoundPair
    /\ LookupByCode(Code(enumElements[2])) = Found(enumElements[2])

\* ---------------------------------------------------------------------- C16
\* The call leaves the default fields as they were.
DefaultUntouched == defaultValue' = defaultValue /\ defaultValid' = defaultValid

\* C16: SetDefaultProto(p) and WithDefaultProto(p) panic with NotFound when
\* no element has the proto p, panic when p is an element's proto and a
\* default is already set, and otherwise return with the element that has p
\* as the default; SetDefaultBasic(b) and WithDefaultBasic(b) do the same by
\* basic value.  A panic writes nothing, and after a return the default is
\* an element of the collection.
C16_SetDefaultByKeyValidates ==
    [][/\ call'.op \in {"SetDefaultProto", "WithDefaultProto"} =>
              /\ ProtoAbsent(call'.arg) =>
                     call'.res = Panic(NotFound) /\ DefaultUntouched
              /\ (~ProtoAbsent(call'.arg) /\ defaultValue # Nil) =>
                     call'.res = Panic(InvalidState) /\ DefaultUntouched
              /\ (~ProtoAbsent(call'.arg) /\ defaultValue = Nil) =>
                     /\ call'.res.ok
                     /\ defaultValue' \in Elements
                     /\ Proto(defaultValue') = call'.arg
       /\ call'.op \in {"SetDefaultBasic", "WithDefaultBasic"} =>
              /\ BasicAbsent(call'.arg) =>
                     call'.res = Panic(NotFound) /\ DefaultUntouched
              /\ (~BasicAbsent(call'.arg) /\ defaultValue # Nil) =>
                     call'.res = Panic(InvalidState) /\ DefaultUntouched
              /\ (~BasicAbsent(call'.arg) /\ defaultValue = Nil) =>
                     /\ call'.res.ok
                     /\ defaultValue' \in Elements
                     /\ Basic(defaultValue') = call'.arg]_vars

\* SetDefaultBasic has made the third of three entries the default.
C16_Witness ==
    /\ Ready
    /\ call.op = "SetDefaultBasic"
    /\ call.res.ok
    /\ Len(enumElements) = 3
    /\ call.arg = Basic(enumElements[3])
    /\ defaultValue = enumElements[3]

\* ---------------------------------------------------------------------- C17
\* The call has done what SetDefault(e) does, and returned the receiver.
SameAsSetDefault(e) ==
    /\ SetDefaultEffect(e).res.ok
    /\ defaultValue' = SetDefaultEffect(e).defaultValue
    /\ defaultValid' = SetDefaultEffect(e).defaultValid
    /\ call'.res = Ok(Self)

\* C17: WithDefaultCode(c) and WithDefaultName(n) panic, writing nothing,
\* when no element has the code c or the name n, as for every key on an
\* empty collection, and when an element has it and a default is already
\* set, as right after NewEnums of a non-empty list; otherwise they do what
\* SetDefault does with the element that has the key and return the
\* receiver itself.
C17_WithDefaultByKey ==
    [][/\ call'.op = "WithDefaultCode" =>
              /\ (CodeAbsent(call'.arg) \/ defaultValue # Nil) =>
                     ~call'.res.ok /\ DefaultUntouched
              /\ CodeAbsent(call'.arg) => call'.res = Panic(NotFound)
              /\ (~CodeAbsent(call'.arg) /\ defaultValue = Nil) =>
                     \E e \in Elements : Code(e) = call'.arg /\ SameAsSetDefault(e)
       /\ call'.op = "WithDefaultName" =>
              /\ (NameAbsent(call'.arg) \/ defaultValue # Nil) =>
                     ~call'.res.ok /\ DefaultUntouched
              /\ NameAbsent(call'.arg) => call'.res = Panic(NotFound)
              /\ (~NameAbsent(call'.arg) /\ defaultValue = Nil) =>
                     \E e \in Elements : Name(e) = call'.arg /\ SameAsSetDefault(e)
       /\ (/\ call'.op \in {"WithDefaultCode", "WithDefaultName"}
           /\ call.op = "NewEnums" /\ call.res.ok) =>
              ~call'.res.ok]_vars

\* WithDefaultName has made the second of three entries the default and
\* returned the receiver.
C17_Witness ==
    /\ Ready
    /\ call.op = "WithDefaultName"
    /\ call.res = Ok(Self)
    /\ Len(enumElements) = 3
    /\ call.arg = Name(enumElements[2])
    /\ defaultValue = enumElements[2]
    /\ defaultValid = << >>

\* ---------------------------------------------------------------------- C18
\* NewEnums reaches a nil entry of list: no two entries before it collide.
ReachesNil(list) ==
    \E i \in 1..Len(list) :
        /\ list[i] = Nil
        /\ \A j \in 1..(i - 1) : list[j] # Nil
        /\ ~HasCollision(SubSeq(list, 1, i - 1))

NewEnumsGivenNil == call.op = "NewEnums" /\ HasNil(params)

SetDefaultGivenNil == call.op \in {"SetDefault", "WithDefault"} /\ call.arg = Nil

\* SetDefault(nil) and WithDefault(nil) panic and write nothing; without a
\* default the panic is InvalidArgument and there is still no default.
SetDefaultNilRejected ==
    SetDefaultGivenNil' =>
        /\ ~call'.res.ok
        /\ DefaultUntouched
        /\ defaultValue = Nil =>
               /\ call'.res = Panic(InvalidArgument)
               /\ defaultValue' = Nil
               /\ ~GetDefault'.ok

\* C18 as claimed: NewEnums panics with InvalidArgument whenever an entry of
\* its argument list is nil, at whatever position; SetDefault(nil) and
\* WithDefault(nil) panic even when no default is set, and leave no default.
C18_NilAlwaysInvalidArgument ==
    [][/\ NewEnumsGivenNil' =>
              /\ phase' = "panicked"
              /\ call'.res = Panic(InvalidArgument)
       /\ SetDefaultNilRejected]_vars

\* C18: NewEnums panics, giving the caller no Enums, whenever an entry of its
\* argument list is nil, at whatever position: with InvalidArgument when no
\* two entries before the first nil collide, and with the DuplicateKey of
\* the first collision otherwise; SetDefault(nil) and WithDefault(nil) panic
\* even when no default is set, and leave no default.
C18_NilRejected ==
    [][/\ NewEnumsGivenNil' =>
              /\ phase' = "panicked"
              /\ NoEnums'
              /\ ReachesNil(params') => call'.res = Panic(InvalidArgument)
              /\ ~ReachesNil(params') => call'.res = Panic(DuplicateKey)
       /\ SetDefaultNilRejected]_vars

\* NewEnums has panicked on a list whose third and last entry is nil.
C18_Witness ==
    /\ phase = "panicked"
    /\ call.op = "NewEnums"
    /\ Len(params) = 3
    /\ params[1] # Nil /\ params[2] # Nil /\ params[3] = Nil
    /\ call.res = Panic(InvalidArgument)
    /\ NoEnums

\* ---------------------------------------------------------------------- C19
\* C19: for every proto value p, whether an element has it or not,
\* GetByProto(p) gives what GetByCode(int32(p.Number())) gives, the same
\* entry or the same panic, and so do MustGetByProto(p) and MustGetByCode,
\* LookupByProto(p) and LookupByCode.
C19_ProtoSearchesByCode ==
    Ready =>
        \A proto \in QueryProtos :
            /\ GetByProto(proto) = GetByCode(Number(proto))
            /\ MustGetByProto(proto) = MustGetByCode(Number(proto))
            /\ LookupByProto(proto) = LookupByCode(Number(proto))

\* ---------------------------------------------------------------------- C20
\* The methods that only read the receiver.
ReadOps ==
    {"LookupByProto", "GetByProto", "MustGetByProto",
     "LookupByCode", "GetByCode", "MustGetByCode",
     "LookupByName", "GetByName", "MustGetByName",
     "LookupByBasic", "GetByBasic", "MustGetByBasic",
     "GetDefault", "GetDefaultProto", "GetDefaultBasic",
     "ListProtos", "ListBasics", "ListValidProtos", "ListValidBasics"}

\* C20: a call of a Lookup, Get or MustGet method, of GetDefault,
\* GetDefaultProto or GetDefaultBasic, or of a List method leaves
\* enumElements, the four maps, defaultValue and defaultValid as they were,
\* when it returns and when it panics.
C20_ReadsWriteNothing ==
    [][call'.op \in ReadOps =>
           /\ enumElements' = enumElements
           /\ mapProtoEnum' = mapProtoEnum
           /\ mapCode2Enum' = mapCode2Enum
           /\ mapName2Enum' = mapName2Enum
           /\ mapBasicEnum' = mapBasicEnum
           /\ defaultValue' = defaultValue
           /\ defaultValid' = defaultValid
           /\ phase' = phase]_vars

\* MustGetByName has panicked on a collection of three entries whose default
\* is marked valid; the default and the mark are still there.
C20_Witness ==
    /\ Ready
    /\ call.op = "MustGetByName"
    /\ call.res = Panic(NotFound)
    /\ Len(enumElements) = 3
    /\ defaultValue = enumElements[1]
    /\ defaultValid = <<TRUE>>

\* ---------------------------------------------------------------------- C21
\* The collection is what NewEnums built from its argument list.
AsBuiltFrom(built) ==
    /\ enumElements = built.enumElements
    /\ mapProtoEnum = built.mapProtoEnum
    /\ mapCode2Enum = built.mapCode2Enum
    /\ mapName2Enum = built.mapName2Enum
    /\ mapBasicEnum = built.mapBasicEnum

\* The answers of the strict and the existence lookups and of the full
\* listings are those of the collection NewEnums built.
AnswersAsBuiltFrom(built) ==
    /\ \A proto \in QueryProtos :
           /\ MustGetByProto(proto) = Full(MapGet(built.mapProtoEnum, proto), NotFound)
           /\ LookupByProto(proto).ok
           /\ LookupByProto(proto).val.enum = MapGet(built.mapProtoEnum, proto)
    /\ \A code \in QueryCodes :
           /\ MustGetByCode(code) = Full(MapGet(built.mapCode2Enum, code), NotFound)
           /\ LookupByCode(code).ok
           /\ LookupByCode(code).val.enum = MapGet(built.mapCode2Enum, code)
    /\ \A name \in QueryNames :
           /\ MustGetByName(name) = Full(MapGet(built.mapName2Enum, name), NotFound)
           /\ LookupByName(name).ok
           /\ LookupByName(name).val.enum = MapGet(built.mapName2Enum, name)
    /\ \A basic \in QueryBasics :
           /\ MustGetByBasic(basic) = Full(MapGet(built.mapBasicEnum, basic), NotFound)
           /\ LookupByBasic(basic).ok
           /\ LookupByBasic(basic).val.enum = MapGet(built.mapBasicEnum, basic)
    /\ ListProtos = ListProtosLoop(built.enumElements, 1)
    /\ ListBasics = ListBasicsLoop(built.enumElements, 1)

AsBuilt ==
    LET built == NewEnumsResult(params)
    IN  AsBuiltFrom(built) /\ AnswersAsBuiltFrom(built)

\* The methods that write the default fields.
MutatorOps ==
    {"SetDefault", "SetDefaultProto", "SetDefaultBasic", "SetDefaultValid",
     "UnsetDefault", "WithDefault", "WithDefaultProto", "WithDefaultBasic",
     "WithDefaultCode", "WithDefaultName", "WithDefaultValid", "WithUnsetDefault"}

\* A call of a default mutator leaves enumElements, the four maps and the
\* argument list NewEnums was given.
MutatorKeepsIndexes ==
    call'.op \in MutatorOps =>
        /\ enumElements' = enumElements
        /\ mapProtoEnum' = mapProtoEnum
        /\ mapCode2Enum' = mapCode2Enum
        /\ mapName2Enum' = mapName2Enum
        /\ mapBasicEnum' = mapBasicEnum
        /\ params' = params

\* C21: SetDefault, SetDefaultProto, SetDefaultBasic, SetDefaultValid,
\* UnsetDefault and the With* methods write only defaultValue and
\* defaultValid: in every state enumElements and the four maps are what
\* NewEnums built, so MustGet*, Lookup*, ListProtos and ListBasics answer
\* the same for as long as the collection lives.
C21_MutatorsKeepIndexes ==
    [](Ready => AsBuilt) /\ [][MutatorKeepsIndexes]_vars

\* WithUnsetDefault and a later SetDefault of the third entry have returned
\* on a collection of three entries, which still answers as built.
C21_Witness ==
    /\ Ready
    /\ call.op = "SetDefault"
    /\ call.res.ok
    /\ Len(params) = 3
    /\ defaultValue = params[3]
    /\ enumElements = params
    /\ MustGetByCode(Code(params[1])) = Ok(params[1])
    /\ ListProtos = <<Proto(params[1]), Proto(params[2]), Proto(params[3])>>

\* ---------------------------------------------------------------------- C22
\* The entries whose proto ListValidProtos() gives.
RECURSIVE SelectedByProtos(_, _)
SelectedByProtos(list, i) ==
    IF i > Len(list) THEN << >>
    ELSE IF Proto(list[i]) \in Range(ListValidProtos)
         THEN <<list[i]>> \o SelectedByProtos(list, i + 1)
         ELSE SelectedByProtos(list, i + 1)

\* Both valid listings select the same entries.
SameSelection ==
    /\ Len(ListValidProtos) = Len(ListValidBasics)
    /\ ListValidBasics = ListBasicsLoop(SelectedByProtos(enumElements, 1), 1)

\* Every element has the default's code exactly when it has the default's
\* basic value.
DefaultKeysAgree ==
    \A e \in Elements : Code(e) = Code(defaultValue) <=> Basic(e) = Basic(defaultValue)

\* C22 as claimed: in every state ListValidProtos() and ListValidBasics()
\* select the same entries - equal length, and ListValidBasics() is the
\* Basic() of the entries whose Proto() is in ListValidProtos() - also for a
\* default that SetDefault or WithDefault took from outside the collection.
C22_SameSelectionAlways == Ready => SameSelection

\* C22: ListValidProtos() leaves out the elements with the default's code
\* and ListValidBasics() those with the default's basic value.  They select
\* the same entries when no default is set, when it is marked valid, when
\* it is an element, and when each element has both or neither of the
\* default's code and basic value (a copy of an element); a default from
\* outside the collection that shares only one of the two with an element
\* makes them select different entries.
C22_SameSelectionWhenKeysAgree ==
    Ready =>
        /\ (defaultValue # Nil /\ ~DefaultValidSet) =>
               \A e \in Elements :
                   /\ Proto(e) \in Range(ListValidProtos) <=> Code(e) # Code(defaultValue)
                   /\ Basic(e) \in Range(ListValidBasics) <=> Basic(e) # Basic(defaultValue)
        /\ (defaultValue = Nil \/ DefaultValidSet) => SameSelection
        /\ defaultValue \in Elements => (DefaultKeysAgree /\ SameSelection)
        /\ (defaultValue # Nil /\ DefaultKeysAgree) => SameSelection
        /\ (defaultValue # Nil /\ ~DefaultValidSet /\ ~DefaultKeysAgree) =>
               ~SameSelection

\* The default is a copy of the first of two entries, taken from outside
\* the collection: both listings leave the first entry out.
C22_Witness ==
    /\ Ready
    /\ enumElements = <<"e1", "e2">>
    /\ defaultValue = "e6"
    /\ defaultValid = << >>
    /\ ListValidProtos = <<"P1">>
    /\ ListValidBasics = <<"success">>

\* ---------------------------------------------------------------------- C23
\* list without its element at index i.
Without(list, i) == SubSeq(list, 1, i - 1) \o SubSeq(list, i + 1, Len(list))

\* part is whole, or whole with one element taken out.
AtMostOneRemoved(part, whole) ==
    \/ part = whole
    \/ \E i \in 1..Len(whole) : part = Without(whole, i)

\* C23: in every state ListValidProtos() is ListProtos() with at most one
\* element taken out, the others in their order, nothing added and nothing
\* twice; and ListValidBasics() is so of ListBasics().
C23_ValidListIsSubsequence ==
    Ready =>
        /\ AtMostOneRemoved(ListValidProtos, ListProtos)
        /\ AtMostOneRemoved(ListValidBasics, ListBasics)
        /\ Cardinality(Range(ListValidProtos)) = Len(ListValidProtos)
        /\ Cardinality(Range(ListValidBasics)) = Len(ListValidBasics)

\* SetDefaultProto made the second of three entries the default: the valid
\* listings are the first and the third, in that order.
C23_Witness ==
    /\ Ready
    /\ call.op = "SetDefaultProto"
    /\ call.res.ok
    /\ Len(enumElements) = 3
    /\ defaultValue = enumElements[2]
    /\ ListValidProtos = Without(ListProtos, 2)
    /\ ListValidBasics = <<Basic(enumElements[1]), Basic(enumElements[3])>>

\* ---------------------------------------------------------------------- C24
\* C24: whenever SetDefault, SetDefaultProto, SetDefaultBasic,
\* SetDefaultValid, UnsetDefault or one of the With* methods panics,
\* defaultValue and defaultValid are what they were before the call.
C24_FailedMutatorWritesNothing ==
    [][(call'.op \in MutatorOps /\ ~call'.res.ok) =>
           /\ defaultValue' = defaultValue
           /\ defaultValid' = defaultValid]_vars

\* SetDefault of an entry has panicked on a collection whose default is
\* marked valid: the default and the mark are still there.
C24_Witness ==
    /\ Ready
    /\ call.op = "SetDefault"
    /\ call.arg # Nil
    /\ call.res = Panic(InvalidState)
    /\ Len(enumElements) = 2
    /\ defaultValue = enumElements[2]
    /\ defaultValid = <<TRUE>>

\* ---------------------------------------------------------------------- C25
\* C25: in every state, reached by whatever calls of NewEnums and of the
\* default mutators, defaultValid is set only while defaultValue is set:
\* without a default the validity is nil.
C25_ValidOnlyWithDefault == defaultValue = Nil => defaultValid = << >>

\* WithUnsetDefault has returned on a collection of one entry, clearing the
\* default NewEnums gave it.
C25_Witness ==
    /\ Ready
    /\ call.op = "WithUnsetDefault"
    /\ call.res = Ok(Self)
    /\ Len(enumElements) = 1
    /\ defaultValue = Nil
    /\ defaultValid = << >>

\* ---------------------------------------------------------------------- C26
\* The methods that install a default.
SetterOps ==
    {"SetDefault", "SetDefaultProto", "SetDefaultBasic", "WithDefault",
     "WithDefaultProto", "WithDefaultBasic", "WithDefaultCode", "WithDefaultName"}

\* A default whose validity is not set is left out of the valid listings,
\* and SetDefaultValid would return for it with either value.
UnmarkedDefaultIsNotValid ==
    (Ready /\ defaultValue # Nil /\ defaultValid = << >>) =>
        /\ ExcludesDefault
        /\ SetDefaultValidEffect(TRUE).res.ok
        /\ SetDefaultValidEffect(FALSE).res.ok

\* An UnsetDefault that returns clears the validity, and a method that
\* installs a default and returns, which it does only without a default,
\* leaves the new default with no validity.
NewDefaultIsUnmarked ==
    /\ (call'.op \in SetterOps /\ call'.res.ok) =>
           /\ defaultValue = Nil
           /\ defaultValue' # Nil
           /\ defaultValid' = << >>
    /\ UnsetReturns' => (defaultValue' = Nil /\ defaultValid' = << >>)

\* C26: the validity is not carried over to another default: after an
\* UnsetDefault and a SetDefault, SetDefaultProto, SetDefaultBasic or With*
\* call that returns, the new default is not valid - the valid listings
\* leave it out, even if the default before it was marked valid - and
\* SetDefaultValid can return once more.
C26_ValidityResetOnNewDefault ==
    []UnmarkedDefaultIsNotValid /\ [][NewDefaultIsUnmarked]_vars

\* SetDefaultValid(false) has returned for the second of three entries, a
\* default installed after the one NewEnums gave was unset.
C26_Witness ==
    /\ Ready
    /\ call.op = "SetDefaultValid"
    /\ call.arg = FALSE
    /\ call.res.ok
    /\ Len(enumElements) = 3
    /\ defaultValue = enumElements[2]
    /\ defaultValid = <<FALSE>>
    /\ ExcludesDefault

\* ---------------------------------------------------------------------- C27
\* C27: in every state each of the four maps has len(enumElements) keys,
\* every value in a map is an element, and each element e is stored under
\* its own Proto(), Code(), Name() and Basic(); so when LookupByCode(c)
\* gives e, LookupByName(e.Name()), LookupByBasic(e.Basic()) and
\* LookupByProto(e.Proto()) give the same e.
C27_IndexAgreement ==
    Ready =>
        /\ Cardinality(DOMAIN mapProtoEnum) = Len(enumElements)
        /\ Cardinality(DOMAIN mapCode2Enum) = Len(enumElements)
        /\ Cardinality(DOMAIN mapName2Enum) = Len(enumElements)
        /\ Cardinality(DOMAIN mapBasicEnum) = Len(enumElements)
        /\ \A k \in DOMAIN mapProtoEnum : mapProtoEnum[k] \in Elements
        /\ \A k \in DOMAIN mapCode2Enum : mapCode2Enum[k] \in Elements
        /\ \A k \in DOMAIN mapName2Enum : mapName2Enum[k] \in Elements
        /\ \A k \in DOMAIN mapBasicEnum : mapBasicEnum[k] \in Elements
        /\ \A e \in Elements :
               /\ MapGet(mapProtoEnum, Proto(e)) = e
               /\ MapGet(mapCode2Enum, Code(e)) = e
               /\ MapGet(mapName2Enum, Name(e)) = e
               /\ MapGet(mapBasicEnum, Basic(e)) = e
        /\ \A code \in QueryCodes :
               LookupByCode(code).val.found =>
                   LET e == LookupByCode(code).val.enum
                   IN  /\ LookupByName(Name(e)) = Found(e)
                       /\ LookupByBasic(Basic(e)) = Found(e)
                       /\ LookupByProto(Proto(e)) = Found(e)

\* On a collection of three entries the code of the third is looked up as
\* the third entry, and so are its name, its basic value and its proto.
C27_Witness ==
    /\ Ready
    /\ Len(enumElements) = 3
    /\ LookupByCode(Code(enumElements[3])) = Found(enumElements[3])
    /\ LookupByName(Name(enumElements[3])) = Found(enumElements[3])
    /\ LookupByBasic(Basic(enumElements[3])) = Found(enumElements[3])
    /\ LookupByProto(Proto(enumElements[3])) = Found(enumElements[3])

\* ---------------------------------------------------------------------- C28
\* The goroutines whose SetDefault has returned, and those that have
\* assigned the default.
Returned == {g \in Goroutines : setters[g].pc = "returned"}
Assigned == {g \in Goroutines : setters[g].pc \in {"valid", "returned"}}

\* C28 as claimed: of two SetDefault calls that run with no lock on a
\* collection without a default, must.Null and the assignment being separate
\* steps, at most one returns, and the default a call that returned has set
\* is not replaced by the other call.
C28_AtMostOneSetDefaultReturns ==
    Ready =>
        /\ Cardinality(Returned) <= 1
        /\ \A g \in Returned : defaultValue = setters[g].enum

\* must.Null guards a call that reaches it when the default is set: the
\* call panics and writes nothing.  The assignment writes the entry of the
\* goroutine that makes it, whatever the default is by then.
GuardAtMustNull ==
    \A g \in Goroutines :
        /\ (setters[g].pc = "null" /\ setters'[g].pc # "null" /\ defaultValue # Nil) =>
               /\ setters'[g].pc = InvalidState
               /\ defaultValue' = defaultValue
               /\ defaultValid' = defaultValid
        /\ (setters[g].pc = "null" /\ setters'[g].pc # "null" /\ defaultValue = Nil) =>
               setters'[g].pc = "full"
        /\ (setters[g].pc = "full" /\ setters'[g].pc = "valid") =>
               defaultValue' = setters[g].enum

\* In every state the default, once a call has assigned it, is the entry of
\* one of the calls that assigned; a call that returned had a non-nil entry.
DefaultIsOfSomeSetter ==
    Ready =>
        /\ Assigned # {} => \E g \in Assigned : defaultValue = setters[g].enum
        /\ \A g \in Assigned : setters[g].enum # Nil

\* C28: SetDefault's guard holds only against a default that is set when
\* must.Null runs: such a call panics and writes nothing.  With no lock, two
\* calls on a collection without a default may both pass must.Null before
\* either assigns; then both return, and the later assignment replaces the
\* default of the earlier.  The default is always the entry of one of the
\* calls that assigned.
C28_GuardOnlyAtMustNull == []DefaultIsOfSomeSetter /\ [][GuardAtMustNull]_vars

\* Both calls have returned, with different entries: the default is the
\* entry of g2 and the entry of g1 is lost.
C28_Witness ==
    /\ Ready
    /\ Returned = Goroutines
    /\ setters["g1"].enum = "e1"
    /\ setters["g2"].enum = "e2"
    /\ defaultValue = "e2"

\* ---------------------------------------------------------------------- C29
\* The collection is the one built from the list NewEnums was given,
\* whatever the caller's slice holds by now: its element list is on an
\* array of its own, and the listings, the lookups and the default are
\* those of the list as given.
KeepsListAsGiven ==
    Ready =>
        /\ elemsArray # CallerArray
        /\ enumElements = params
        /\ AsBuilt
        /\ ListProtos = ListProtosLoop(params, 1)
        /\ ListBasics = ListBasicsLoop(params, 1)
        /\ defaultValue = V0(params)

\* A write of the caller into its argument list or into a slice a List
\* method returned writes no field of the collection, and a List call made
\* afterwards returns the listing of the collection.
CallerWritesAreOutside ==
    /\ (callerSlice' # callerSlice /\ Ready) =>
           UNCHANGED <<indexes, defaultValue, defaultValid>>
    /\ call'.op = "WriteResult" =>
           UNCHANGED <<indexes, defaultValue, defaultValid>>
    /\ call'.op = "ListProtos" => call'.res = Ok(ListProtosLoop(params, 1))
    /\ call'.op = "ListBasics" => call'.res = Ok(ListBasicsLoop(params, 1))

\* C29: NewEnums keeps a copy of its argument list, so when the caller
\* afterwards replaces, moves or nils elements of its slice, ListProtos(),
\* ListBasics(), the lookups and the default stay what they were; and each
\* List call returns a slice of its own, whose elements the caller may
\* overwrite without changing what later List calls return.
C29_IsolatedFromCallerSlices == []KeepsListAsGiven /\ [][CallerWritesAreOutside]_vars

\* The caller has overwritten the first two of its three entries, with nil
\* and with the third, and a ListBasics() called afterwards still returns
\* the three basic values in the order given.
C29_Witness ==
    /\ Ready
    /\ Len(params) = 3
    /\ callerSlice = <<Nil, params[3], params[3]>>
    /\ enumElements = params
    /\ call.op = "ListBasics"
    /\ call.res = Ok(<<Basic(params[1]), Basic(params[2]), Basic(params[3])>>)

\* ---------------------------------------------------------------- C30
\* What the last call gave on each collection.
SameOutcome == simple.res = call.res

\* C30: the three-index variant and the four-index variant cannot be told
\* apart by their common operations.  Given the same entry list, NewEnums
\* returns on both or panics on both; after that, whatever sequence of
\* GetByCode, MustGetByCode, GetByName, MustGetByName, GetByPure/GetByBasic,
\* MustGetByPure/MustGetByBasic, GetDefault, SetDefault, UnsetDefault,
\* WithDefaultCode, WithDefaultName and WithUnsetDefault both have been
\* given, the last call returned the same entry on both or panicked on
\* both for the same reason, and both hold the same default.
C30_VariantsAgree ==
    (Replayed /\ call.op # "none") =>
        /\ SameOutcome
        /\ (simple.phase = "ready") <=> Ready
        /\ (simple.phase = "panicked") <=> (phase = "panicked")
        /\ simple.defaultValue = defaultValue

\* Both variants were built from a list with e2, a foreign default e6 was
\* set on both after an UnsetDefault, and a lenient lookup by a basic value
\* that no entry has gave e6 on both.
C30_Witness ==
    /\ Replayed
    /\ "e2" \in Elements
    /\ call.op = "GetByBasic"
    /\ call.arg = "not_exists"
    /\ simple.res = Ok("e6")
    /\ call.res = Ok("e6")
    /\ "e6" \notin Elements

=============================================================================
